---- MODULE Spec2Model ----
(***************************************************************************)
(* HyperBoard (src/uttt/hyper_board.py): an n-dimensional hypercubic       *)
(* tic-tac-toe board, its direction catalog and its win check.             *)
(*                                                                         *)
(* Python objects are encoded as integers:                                 *)
(*   None          0                                                       *)
(*   int k         k            (1 <= k <= 9, a marker given as an int)    *)
(*   Player(k)     10 + k       (value() is the name k)                    *)
(*   HyperBoard    100 + w      (a board used as a marker; w is its        *)
(*                               winner: None or a Player; value() is w)   *)
(***************************************************************************)
EXTENDS Integers, Sequences, FiniteSets

None == 0

\* ---------------------------------------------------------------- bounds
\* Spec explores every board of at most MaxCells cells and MaxDims
\* dimensions; LineSpec every board of at most MaxLineCells cells, side
\* MaxLineSide and MaxDims dimensions.
MaxCells == 4
MaxDims == 3
MaxLineSide == 4
MaxLineCells == 27

\* ------------------------------------------------------- small arithmetic
Max(a, b) == IF a >= b THEN a ELSE b
Min(a, b) == IF a <= b THEN a ELSE b

RECURSIVE Pow(_, _)
Pow(b, e) == IF e <= 0 THEN 1 ELSE b * Pow(b, e - 1)

Elems(s) == {s[k] : k \in DOMAIN s}

\* ---------------------------------------------------------------- markers
\* Player.__init__: a Player object holding the name.
Player(name) == 10 + name

\* A HyperBoard object used as a marker; w is the winner it holds.
HyperBoardMarker(w) == 100 + w

IsInt(m) == m >= 1 /\ m <= 9
IsHyperBoard(m) == m >= 100

\* Player.value: the name.
PlayerValue(m) == m - 10

\* HyperBoard.value: the winner slot (None for a board nobody has won).
HyperBoardValue(m) == m - 100

\* marker.value(), dispatched on the marker's class.
value(m) == IF IsHyperBoard(m) THEN HyperBoardValue(m) ELSE PlayerValue(m)

\* place_marker, "Allow integer players": an int becomes a Player.
ToMarker(marker) == IF IsInt(marker) THEN Player(marker) ELSE marker

\* The markers callers place: the int 1, the Player object named 2, a board
\* with no winner, and a board won by Player(1) (the __main__ tests' marker).
Markers == {1, Player(2), HyperBoardMarker(None), HyperBoardMarker(Player(1))}

\* ------------------------------------------------------ direction catalog
Pool == <<1, 0, -1>>

\* itertools.product([1, 0, -1], repeat=n): last component varies fastest.
RECURSIVE product(_)
product(n) ==
    IF n = 0 THEN << <<>> >>
    ELSE LET prev == product(n - 1)
         IN [k \in 1..(3 * Len(prev)) |->
                Append(prev[((k - 1) \div 3) + 1], Pool[((k - 1) % 3) + 1])]

Neg(v) == [k \in DOMAIN v |-> -v[k]]

\* np.delete(directions, i-1, axis=0), with i counted from 1.
DeleteAt(s, i) == SubSeq(s, 1, i - 1) \o SubSeq(s, i + 1, Len(s))

\* Bug variant: a row is only compared with the other rows.
NegationPresent_otherRows(dirs, i) ==
    \E j \in (1..Len(dirs)) \ {i} : dirs[j] = Neg(dirs[i])

\* (-directions[i-1]).tolist() in directions.tolist()
NegationPresent(dirs, i) == \E j \in 1..Len(dirs) : dirs[j] = Neg(dirs[i])

\* for i in range(directions.shape[0], 0, -1): delete row i-1 when its
\* negation is (still) in the array.
RECURSIVE DeleteLoop(_, _)
DeleteLoop(dirs, i) ==
    IF i = 0 THEN dirs
    ELSE IF NegationPresent(dirs, i)
         THEN DeleteLoop(DeleteAt(dirs, i), i - 1)
         ELSE DeleteLoop(dirs, i - 1)

direction_vectors(n) == DeleteLoop(product(n), Len(product(n)))

\* ------------------------------------------------------------------ state
VARIABLES
    pc,           \* "new": __init__ not yet run; "ready": a board exists;
                  \* "failed": __init__ raised
    args,         \* <<side_length, dimensions>> passed to __init__
    side_length,  \* self.side_length
    ndims,        \* self.ndims
    shape,        \* self.shape
    board,        \* self.board: position -> None or a marker
    directions,   \* self._directions
    winner,       \* self.winner
    call,         \* <<marker, position>> of the last place_marker call
    ret,          \* how it ended: "True", "False", "MoveError", "IndexError";
                  \* "none" before the first call
    everWon,      \* some place_marker call so far returned True
    line,         \* LineSpec: <<start, step, marker>> of the line being filled
    results       \* LineSpec: what each placement on the line returned

vars == <<pc, args, side_length, ndims, shape, board, directions, winner,
          call, ret, everWon, line, results>>

fields == <<side_length, ndims, shape, board, directions, winner>>

\* All index tuples of an array of n dimensions of length L (n = 0: the one
\* element of a 0-d array, indexed by the empty tuple).
Positions(L, n) == [1..n -> 0..(L - 1)]

\* --------------------------------------------------------------- __init__
\* np.empty(shape) raises ValueError on a negative dimension;
\* itertools.product raises ValueError on a negative repeat.
InitRaises(L, n) == (n >= 1 /\ L < 0) \/ n < 0

\* Constructor arguments: every legal board of at most MaxCells cells and
\* MaxDims dimensions, and the arguments below 1.
Configs == {c \in (1..MaxCells) \X (1..MaxDims) : Pow(c[1], c[2]) <= MaxCells}
BadArgs == {c \in (-1..2) \X (-1..2) : c[1] < 1 \/ c[2] < 1}

Init ==
    /\ pc = "new"
    /\ args \in Configs \cup BadArgs
    /\ side_length = None /\ ndims = None /\ shape = <<>>
    /\ board = <<>> /\ directions = <<>> /\ winner = None
    /\ call = <<>> /\ ret = "none" /\ everWon = FALSE
    /\ line = <<>> /\ results = <<>>

\* tuple(side_length for _ in range(dimensions))
ShapeOf(L, n) == [k \in 1..n |-> L]

\* np.empty(self.shape, dtype=object): every cell None.
EmptyBoard(L, n) == [p \in Positions(L, n) |-> None]

Construct ==
    /\ pc = "new"
    /\ IF InitRaises(args[1], args[2])
       THEN pc' = "failed" /\ UNCHANGED fields
       ELSE /\ pc' = "ready"
            /\ winner' = None
            /\ shape' = ShapeOf(args[1], args[2])
            /\ board' = EmptyBoard(args[1], args[2])
            /\ ndims' = args[2]
            /\ side_length' = args[1]
            /\ directions' = direction_vectors(args[2])
    /\ UNCHANGED <<args, call, ret, everWon, line, results>>

\* ----------------------------------------------------------- place_marker
\* Bug variant: the lower end for a -1 component is off by one.
Tighten_offByOne(range, dx, x) ==
    IF dx = 1
    THEN <<Max(range[1], -x), Min(range[2], side_length - x)>>
    ELSE IF dx = -1
         THEN <<Max(range[1], -(side_length - x)), Min(range[2], x + 1)>>
         ELSE range

\* One pass of "for dx, x in zip(direction, position)" over <<test_min, test_max>>.
Tighten(range, dx, x) ==
    IF dx = 1
    THEN <<Max(range[1], -x), Min(range[2], side_length - x)>>
    ELSE IF dx = -1
         THEN <<Max(range[1], 1 - (side_length - x)), Min(range[2], x + 1)>>
         ELSE range

\* The a-priori interval the scan of a direction starts from.
StartRange == <<-ndims, ndims + 1>>

RECURSIVE TestRange(_, _, _)
TestRange(direction, position, k) ==
    IF k = 0 THEN StartRange
    ELSE Tighten(TestRange(direction, position, k - 1), direction[k], position[k])

test_min(direction, position) == TestRange(direction, position, ndims)[1]
test_max(direction, position) == TestRange(direction, position, ndims)[2]

\* tuple(position + i*direction)
Step(position, i, direction) == [k \in 1..ndims |-> position[k] + i * direction[k]]

\* numpy indexing of self.board: a negative index counts from the end of
\* its axis; an index outside [-side_length, side_length) is an IndexError.
ArrayIndex(idx) ==
    [k \in 1..ndims |-> IF idx[k] < 0 THEN idx[k] + side_length ELSE idx[k]]

\* The indices position + i*direction for i in range(test_min, test_max).
LineIndices(direction, position) ==
    LET lo == test_min(direction, position)
        hi == test_max(direction, position)
    IN [j \in 1..(hi - lo) |-> Step(position, lo + j - 1, direction)]

\* Reading the line raises IndexError.
LineRaises(direction, position) ==
    \E j \in DOMAIN LineIndices(direction, position) :
        ArrayIndex(LineIndices(direction, position)[j]) \notin DOMAIN board

\* line = [board[position + i*direction] for i in range(test_min, test_max)],
\* then each marker replaced by its value() (None stays None).
LineValues(b, direction, position) ==
    LET idx == LineIndices(direction, position)
    IN [j \in DOMAIN idx |->
          LET m == b[ArrayIndex(idx[j])]
          IN IF m # None THEN value(m) ELSE None]

\* Bug variant: the line is only checked for empty cells.
AllSame_noEmptyOnly(vals) == None \notin Elems(vals)

\* None not in line and len(set(line)) == 1
AllSame(vals) == None \notin Elems(vals) /\ Cardinality(Elems(vals)) = 1

\* "If the line is long enough to win"
LongEnough(direction, position) ==
    test_max(direction, position) - test_min(direction, position) = side_length

\* Bug variant: the single-cell line is not counted as a win.
LineWins_noTrivial(b, direction, position) ==
    /\ side_length > 1
    /\ AllSame(LineValues(b, direction, position))

\* "Check if all markers are the same", for a line that is long enough.
LineWins(b, direction, position) == AllSame(LineValues(b, direction, position))

\* for direction in self._directions, from the d-th direction on: "True" at
\* the first winning direction, "IndexError" if a line read raises before
\* that, "False" when the directions are exhausted.
RECURSIVE Scan(_, _, _)
Scan(b, position, d) ==
    IF d > Len(directions) THEN "False"
    ELSE IF ~LongEnough(directions[d], position) THEN Scan(b, position, d + 1)
    ELSE IF LineRaises(directions[d], position) THEN "IndexError"
    ELSE IF LineWins(b, directions[d], position) THEN "True"
    ELSE Scan(b, position, d + 1)

\* Bug variants: the legality check is missing; a recorded win blocks moves.
IsOccupied_never(position) == FALSE
IsOccupied_orWon(position) == board[position] # None \/ winner # None

\* self.board[position] is not None
IsOccupied(position) == board[position] # None

\* Bug variant: winner is assigned on every placement.
WinnerAfter_always(wins, m) == m

\* self.winner = marker, on a winning placement only.
WinnerAfter(wins, m) == IF wins THEN m ELSE winner

\* Bug variant: only the first index is used, so the whole slice is assigned.
WithMarker_slice(position, m) ==
    [p \in DOMAIN board |->
        IF ndims >= 1 /\ p[1] = position[1] THEN m ELSE board[p]]

\* self.board[position] = marker
WithMarker(position, m) == [board EXCEPT ![position] = m]

PlaceMarker(marker, position) ==
    /\ pc = "ready"
    /\ position \in DOMAIN board
    /\ call' = <<marker, position>>
    /\ LET m == ToMarker(marker)
       IN IF IsOccupied(position)
          THEN /\ ret' = "MoveError"
               /\ UNCHANGED <<board, winner, everWon>>
          ELSE LET b == WithMarker(position, m)
                   outcome == Scan(b, position, 1)
               IN /\ board' = b
                  /\ winner' = WinnerAfter(outcome = "True", m)
                  /\ ret' = outcome
                  /\ everWon' = (everWon \/ outcome = "True")
    /\ UNCHANGED <<pc, args, side_length, ndims, shape, directions>>

Place == \E marker \in Markers, position \in DOMAIN board :
            PlaceMarker(marker, position) /\ UNCHANGED <<line, results>>

Next == Construct \/ Place

Spec == Init /\ [][Next]_vars

\* ------------------------------------------------- filling one full line
\* LineSpec: a fresh board, on which one marker is placed on the cells of one
\* full line, in any order.
LineConfigs ==
    {c \in (1..MaxLineSide) \X (1..MaxDims) : Pow(c[1], c[2]) <= MaxLineCells}

\* Every step vector with components in {-1, 0, 1} except the zero vector:
\* both traversal directions of every line direction.
Steps(n) == {d \in [1..n -> {-1, 0, 1}] : \E k \in 1..n : d[k] # 0}

\* start is the first cell of a line of L cells along step.
StartsFullLine(L, n, start, step) ==
    \A k \in 1..n :
        start[k] = (IF step[k] = 1 THEN 0 ELSE IF step[k] = -1 THEN L - 1 ELSE start[k])

LineInit ==
    /\ pc = "ready"
    /\ args \in LineConfigs
    /\ winner = None
    /\ shape = ShapeOf(args[1], args[2])
    /\ board = EmptyBoard(args[1], args[2])
    /\ ndims = args[2]
    /\ side_length = args[1]
    /\ directions = direction_vectors(args[2])
    /\ call = <<>> /\ ret = "none" /\ everWon = FALSE
    /\ \E start \in Positions(args[1], args[2]), step \in Steps(args[2]),
          marker \in Markers :
            /\ StartsFullLine(args[1], args[2], start, step)
            /\ line = <<start, step, marker>>
    /\ results = <<>>

\* The k-th cell of the line.
LineCell(k) == Step(line[1], k, line[2])

LinePlace(k) ==
    /\ board[LineCell(k)] = None
    /\ PlaceMarker(line[3], LineCell(k))
    /\ results' = Append(results, ret')
    /\ UNCHANGED line

LineNext == \E k \in 0..(side_length - 1) : LinePlace(k)

LineSpec == LineInit /\ [][LineNext]_vars

\* ================================================================= claims
\* A place_marker call is any step taken from a constructed board; call'
\* holds its arguments, ret' how it ended.
Called == pc = "ready" /\ call' # <<>>

\* A marker that carries a value: an int, a Player, a board somebody has won.
\* (The marker whose value() is None is the subject of C14.)
HasValue(marker) == value(ToMarker(marker)) # None

Occupied == {p \in DOMAIN board : board[p] # None}

\* C1: once winner is set it keeps that marker through every later
\* place_marker call, also one that completes a line for another marker.
C1_WinnerNeverOverwritten == [][winner # None => winner' = winner]_vars

\* C2 (LineSpec): the same marker placed on the L cells of a line along one
\* coordinate axis of an empty board, in any order, returns False on the
\* first L-1 placements and True on the L-th.
AxisLine == Cardinality({k \in 1..ndims : line[2][k] # 0}) = 1

C2_AxisLineWinsOnLast ==
    (AxisLine /\ HasValue(line[3])) =>
        \A j \in 1..Len(results) :
            results[j] = (IF j = side_length THEN "True" ELSE "False")

\* C3: place_marker on a cell that holds a marker ends in MoveError and
\* leaves every cell and the winner as they were.
C3_OccupiedCellRaises ==
    [][(Called /\ board[call'[2]] # None) =>
         (ret' = "MoveError" /\ board' = board /\ winner' = winner)]_vars

C3_Witness ==
    pc = "ready" /\ ret = "MoveError" /\ board[call[2]] # None /\ winner # None

\* C4: for n >= 1, direction_vectors(n) has (3^n - 1) / 2 vectors, no two of
\* them negations of one another.
C4_DirectionCount ==
    (pc = "ready" /\ ndims >= 1) =>
        /\ Len(directions) = (Pow(3, ndims) - 1) \div 2
        /\ \A i, j \in 1..Len(directions) :
              i # j => directions[i] # Neg(directions[j])

C4_Witness == pc = "ready" /\ ndims >= 3 /\ Len(directions) >= 13

\* C5: constructing a board with side_length < 1 or dimensions < 1 fails;
\* no board comes out of it.
C5_BadArgsRejected ==
    (pc # "new" /\ (args[1] < 1 \/ args[2] < 1)) => pc = "failed"

C7_WinnerIffWon ==
    /\ [](pc = "ready" => (winner = None <=> ~everWon))
    /\ [][Called =>
            /\ ret' \in {"False", "MoveError"} => winner' = winner
            /\ (ret' = "True" /\ ~everWon) =>
                  (winner' = ToMarker(call'[1]) /\ winner' = board'[call'[2]])]_vars

C7_Witness ==
    pc = "ready" /\ ret = "True" /\ winner = board[call[2]] /\ everWon

\* C8: a cell that holds a marker keeps it through every place_marker call.
C8_CellsNeverOverwritten ==
    [][\A p \in DOMAIN board : board[p] # None => board'[p] = board[p]]_vars

\* A call by another marker on an occupied cell has just failed.
C8_Witness ==
    /\ pc = "ready" /\ ret = "MoveError"
    /\ board[call[2]] # ToMarker(call[1])
    /\ Cardinality(Occupied) >= 2

\* C9: with a winner recorded, place_marker on an empty cell raises nothing
\* and puts the marker in the cell.
C9_WinDoesNotBlock ==
    [][(Called /\ winner # None /\ board[call'[2]] = None) =>
         (ret' \in {"True", "False"} /\ board'[call'[2]] = ToMarker(call'[1]))]_vars

\* The last call returned False, so the winner was recorded before it.
C9_Witness ==
    /\ pc = "ready" /\ winner # None /\ ret = "False"
    /\ board[call[2]] = ToMarker(call[1])

C11_OneRepresentative ==
    (pc = "ready" /\ ndims >= 1) =>
        /\ \A j \in 1..Len(directions) : \E k \in 1..ndims : directions[j][k] # 0
        /\ \A v \in Steps(ndims) :
              (v \in Elems(directions)) # (Neg(v) \in Elems(directions))
        /\ ndims = 1 => directions = << <<1>> >>

C11_Witness ==
    /\ pc = "ready" /\ ndims = 2
    /\ <<1, -1>> \in Elems(directions) /\ <<-1, 1>> \notin Elems(directions)

\* C12: for every in-bounds position and catalog direction, the interval
\* [test_min, test_max) computed by place_marker is exactly the set of
\* multipliers i for which position + i*direction is inside the grid in
\* every dimension where the direction is non-zero; the a-priori bound
\* -dimensions .. dimensions+1 never cuts it shorter.
InGridMultipliers(direction, position) ==
    {i \in (-side_length)..side_length :
        \A k \in 1..ndims :
            direction[k] # 0 =>
                (position[k] + i * direction[k] >= 0
                    /\ position[k] + i * direction[k] < side_length)}

C12_IntervalIsLineExtent ==
    (pc = "ready" /\ ret \in {"True", "False"}) =>
        \A d \in 1..Len(directions) :
            test_min(directions[d], call[2]) .. (test_max(directions[d], call[2]) - 1)
                = InGridMultipliers(directions[d], call[2])

\* The side_length cells call[2] + i*direction, i = lo .. lo+side_length-1,
\* form a line through the placed cell, inside the grid, every cell occupied.
FullLineAt(direction, lo) ==
    /\ lo <= 0 /\ lo + side_length - 1 >= 0
    /\ \A i \in lo..(lo + side_length - 1) :
          /\ Step(call[2], i, direction) \in DOMAIN board
          /\ board[Step(call[2], i, direction)] # None

\* C13: place_marker returns True only on a real win: some catalog
\* direction has side_length distinct in-grid cells on the line through the
\* placed position, the placed cell among them, all occupied by markers
\* whose value equals the value of the marker just placed.
C13_TrueMeansLine ==
    (pc = "ready" /\ ret = "True") =>
        \E d \in 1..Len(directions) : \E lo \in (1 - side_length)..0 :
            /\ FullLineAt(directions[d], lo)
            /\ \A i \in lo..(lo + side_length - 1) :
                  value(board[Step(call[2], i, directions[d])])
                      = value(ToMarker(call[1]))
            /\ Cardinality({Step(call[2], i, directions[d]) :
                              i \in lo..(lo + side_length - 1)}) = side_length

\* A win on a board that also holds another player's marker.
C13_Witness ==
    /\ pc = "ready" /\ ret = "True" /\ side_length = 2 /\ ndims = 2
    /\ \E p \in DOMAIN board :
          board[p] # None /\ value(board[p]) # value(ToMarker(call[1]))

\* C14: a full-length line whose cells are all occupied by markers of equal
\* value wins, whatever the value: place_marker does not return False when
\* the line it examined through the placed cell is such a line.
C14_EqualValuesWin ==
    (pc = "ready" /\ ret = "False") =>
        ~ \E d \in 1..Len(directions) : \E lo \in (1 - side_length)..0 :
              /\ LongEnough(directions[d], call[2])
              /\ FullLineAt(directions[d], lo)
              /\ \A i \in lo..(lo + side_length - 1) :
                    value(board[Step(call[2], i, directions[d])])
                        = value(ToMarker(call[1]))

\* C15: a place_marker call that raises nothing changes exactly the cell at
\* position, which becomes the marker; every other cell, the shape, the side
\* length, the dimension count and the direction catalog stay as they were.
C15_OneCellChanges ==
    [][(Called /\ ret' \in {"True", "False"}) =>
         /\ board[call'[2]] # board'[call'[2]]
         /\ board'[call'[2]] = ToMarker(call'[1])
         /\ DOMAIN board' = DOMAIN board
         /\ \A p \in DOMAIN board \ {call'[2]} : board'[p] = board[p]
         /\ UNCHANGED <<shape, side_length, ndims, directions>>]_vars

\* A winning and a non-winning placement both happened on a 2x2 board.
C15_Witness ==
    /\ pc = "ready" /\ ndims = 2 /\ side_length = 2
    /\ ret = "False" /\ winner # None /\ Cardinality(Occupied) = 3

\* C16: every index position + i*direction that a place_marker call reads
\* while scanning the lines through its (in-bounds) position has every
\* component in 0 .. side_length-1, for every catalog direction; no read
\* leaves the grid or wraps around.
C16_ReadsInsideGrid ==
    (pc = "ready" /\ call # <<>>) =>
        /\ ret # "IndexError"
        /\ \A d \in 1..Len(directions) :
              LongEnough(directions[d], call[2]) =>
                  LET idx == LineIndices(directions[d], call[2])
                  IN \A j \in DOMAIN idx : \A k \in 1..ndims :
                        idx[j][k] >= 0 /\ idx[j][k] < side_length

\* An anti-diagonal was read backwards from the placed cell.
C16_Witness ==
    /\ pc = "ready" /\ ret = "True" /\ ndims = 2 /\ side_length = 2
    /\ \E d \in 1..Len(directions) :
          /\ directions[d] = <<1, -1>>
          /\ LongEnough(directions[d], call[2])
          /\ test_min(directions[d], call[2]) < 0
          /\ AllSame(LineValues(board, directions[d], call[2]))

====
